---- MODULE Spec2Model ----
(***************************************************************************)
(* Model of remove_catches.py: the script reads VoiceManager.ts, scans its *)
(* lines for try blocks followed by a catch block that holds only          *)
(* comments, and writes the rewritten lines back.                          *)
(*                                                                         *)
(* A line is a sequence of tokens ("try", "{", "}", "catch", "(", ")",     *)
(* "//", " ", identifiers); the file is the token sequence of its lines    *)
(* joined by the newline token.  The regular expressions, str.count, the   *)
(* `in` tests, split and join of the script are computed on these          *)
(* sequences.  Line indexes are Python's (0-based).                        *)
(***************************************************************************)
EXTENDS Integers, Sequences, FiniteSets, TLC

\* ------------------------------------------------------------------ bounds
MaxLines == 5   \* longest input file, in lines
MaxRuns == 2    \* how often the script is run on the file (SpecRerun)

\* ------------------------------------------------------------------ tokens
NL == "<nl>"
Space == {" ", NL}          \* what \s and str.strip() take as whitespace

\* The lines an input file is made of.
TryOpen == <<"try", " ", "{">>                                  \* try {
TryOneLine == <<"try", " ", "{", " ", "x", " ", "}">>           \* try { x }
Stmt == <<" ", "x", ".", "catch", "(", "f", ")">>               \*   x.catch(f)
CatchHdr == <<"}", " ", "catch", " ", "(", "e", ")", " ", "{">> \* } catch (e) {
CatchHdrOpen == <<"}", " ", "catch", " ", "(", "_error", ")", " ", "{", " ", "{">>
                                                                \* } catch (_error) { {
Comment == <<" ", "//", " ", "x">>                              \*   // x
Close == <<"}">>                                                \* }

Vocabulary == {TryOpen, TryOneLine, Stmt, CatchHdr, CatchHdrOpen, Comment, Close}

Inputs == UNION {[1..n -> Vocabulary] : n \in 1..MaxLines}

\* ------------------------------------------------------- string operations
\* '\n'.join(ls)
RECURSIVE Join(_)
Join(ls) ==
  IF ls = <<>> THEN <<>>
  ELSE IF Len(ls) = 1 THEN ls[1]
  ELSE ls[1] \o <<NL>> \o Join(Tail(ls))

\* s.split('\n')
RECURSIVE Split(_)
Split(s) ==
  IF \A p \in DOMAIN s : s[p] # NL THEN <<s>>
  ELSE LET p == CHOOSE q \in DOMAIN s : s[q] = NL /\ \A r \in 1..(q - 1) : s[r] # NL
       IN <<SubSeq(s, 1, p - 1)>> \o Split(SubSeq(s, p + 1, Len(s)))

\* s.count(t)
RECURSIVE CountTok(_, _)
CountTok(s, t) ==
  IF s = <<>> THEN 0
  ELSE (IF Head(s) = t THEN 1 ELSE 0) + CountTok(Tail(s), t)

\* t in s
Contains(s, t) == \E p \in DOMAIN s : s[p] = t

\* s.count('{') - s.count('}')
BraceDelta(s) == CountTok(s, "{") - CountTok(s, "}")

\* \s* from position p: the first position at or after p that holds no whitespace
SkipWs(s, p) ==
  CHOOSE q \in p..(Len(s) + 1) :
    /\ \A r \in p..(q - 1) : s[r] \in Space
    /\ (q = Len(s) + 1 \/ s[q] \notin Space)

\* s.strip()
Strip(s) ==
  LET a == SkipWs(s, 1)
  IN IF a > Len(s) THEN <<>>
     ELSE LET b == CHOOSE q \in a..Len(s) :
                     s[q] \notin Space /\ \A r \in (q + 1)..Len(s) : s[r] \in Space
          IN SubSeq(s, a, b)

\* re.match(r'^\s*try\s*\{', s): the position of the matched '{', 0 for no match
MatchTry(s) ==
  LET p1 == SkipWs(s, 1)
  IN IF p1 <= Len(s) /\ s[p1] = "try"
     THEN LET p2 == SkipWs(s, p1 + 1)
          IN IF p2 <= Len(s) /\ s[p2] = "{" THEN p2 ELSE 0
     ELSE 0

IsTryLine(s) == MatchTry(s) > 0

\* re.match(r'^\s*\}\s*catch\s*\([^)]*\)\s*\{', s)
IsCatchHeader(s) ==
  LET p1 == SkipWs(s, 1)
  IN /\ p1 <= Len(s) /\ s[p1] = "}"
     /\ LET p2 == SkipWs(s, p1 + 1)
        IN /\ p2 <= Len(s) /\ s[p2] = "catch"
           /\ LET p3 == SkipWs(s, p2 + 1)
              IN /\ p3 <= Len(s) /\ s[p3] = "("
                 /\ \E p4 \in (p3 + 1)..Len(s) :
                      /\ s[p4] = ")"
                      /\ \A r \in (p3 + 1)..(p4 - 1) : s[r] # ")"
                      /\ LET p5 == SkipWs(s, p4 + 1)
                         IN p5 <= Len(s) /\ s[p5] = "{"

\* re.sub(r'^\s*try\s*\{', '', s)
StripTryToken(s) ==
  IF MatchTry(s) > 0 THEN SubSeq(s, MatchTry(s) + 1, Len(s)) ELSE s

\* re.sub(r'\}\s*$', '', s): drops a final '}' and the whitespace after it
StripCloseBrace(s) ==
  IF \E p \in DOMAIN s : s[p] = "}" /\ \A r \in (p + 1)..Len(s) : s[r] \in Space
  THEN LET p == CHOOSE q \in DOMAIN s :
                  s[q] = "}" /\ \A r \in (q + 1)..Len(s) : s[r] \in Space
       IN SubSeq(s, 1, p - 1)
  ELSE s

\* re.match(r'^\s*(//.*\s*)*$', s) from position p: whitespace, then comments
\* that each run to the end of their line, up to the end of s
RECURSIVE MatchComments(_, _)
MatchComments(s, p) ==
  LET q == SkipWs(s, p)
  IN IF q > Len(s) THEN TRUE
     ELSE IF s[q] # "//" THEN FALSE
     ELSE LET e == CHOOSE r \in q..(Len(s) + 1) :
                     /\ \A t \in q..(r - 1) : s[t] # NL
                     /\ (r = Len(s) + 1 \/ s[r] = NL)
          IN MatchComments(s, e)

\* catch_content[1:-1]
Inner(cc) == IF Len(cc) <= 2 THEN <<>> ELSE SubSeq(cc, 2, Len(cc) - 1)

\* catch_body = '\n'.join(catch_content[1:-1]);
\* re.match(r'^\s*(//.*\s*)*$', catch_body.strip())
OnlyComments(cc) == MatchComments(Strip(Join(Inner(cc))), 1)

\* -------------------------------------------------------------------- state
VARIABLES
  content,            \* the file VoiceManager.ts, as one token sequence
  lines,              \* content.split('\n')
  cleaned_lines,      \* the output lines
  i,                  \* index of the main loop
  line,               \* lines[i] as read at the top of the iteration
  try_start,          \* index of the try line being scanned
  brace_count,        \* running brace count of the try scan
  j,                  \* index of the try scan
  catch_start,        \* index of the catch header
  catch_brace_count,  \* running brace count of the catch scan
  catch_content,      \* the lines of the catch scan so far
  k,                  \* index of the catch scan
  catch_end,          \* index of the line that ended the catch scan
  pc,                 \* "read", "while", "forj", "fork", "write", "done"
  run,                \* which run of the script this is
  \* history, read by the properties only
  log,                \* the branches the run took, in order
  src,                \* for each output line, the input index it was made from
  i0,                 \* i at the top of the latest iteration of the main loop
  out0,               \* len(cleaned_lines) at the top of that iteration
  rd                  \* the indexes of lines the latest step read

vars ==
  <<content, lines, cleaned_lines, i, line, try_start, brace_count, j, catch_start,
    catch_brace_count, catch_content, k, catch_end, pc, run, log, src, i0, out0, rd>>

tryVars == <<try_start, brace_count, j>>
catchVars == <<catch_start, catch_brace_count, catch_content, k, catch_end>>

NumLines == Len(lines)
LineAt(idx) == lines[idx + 1]
Range(a, b) == [n \in 1..(b - a + 1) |-> a + n - 1]      \* list(range(a, b + 1))
Slice(a, b) == [n \in 1..(b - a + 1) |-> LineAt(a + n - 1)]

\* An index outside 0..len(lines)-1 raises IndexError and ends the run.
Alive == rd \subseteq 0..(NumLines - 1)

Event(br) == [br |-> br, ts |-> i0, j |-> j, cs |-> -1, ce |-> -1]
PairEvent(br) == [br |-> br, ts |-> i0, j |-> j, cs |-> catch_start, ce |-> k]

Init ==
  /\ content \in {Join(ls) : ls \in Inputs}
  /\ lines = <<>>
  /\ cleaned_lines = <<>>
  /\ i = 0
  /\ line = <<>>
  /\ try_start = -1
  /\ brace_count = 0
  /\ j = -1
  /\ catch_start = -1
  /\ catch_brace_count = 0
  /\ catch_content = <<>>
  /\ k = -1
  /\ catch_end = -1
  /\ pc = "read"
  /\ run = 1
  /\ log = <<>>
  /\ src = <<>>
  /\ i0 = 0
  /\ out0 = 0
  /\ rd = {}

\* ------------------------------------------------------------------ actions
\* Lines 4-13: read the file, split it, start the scan.
ReadFile ==
  /\ pc = "read"
  /\ lines' = Split(content)
  /\ cleaned_lines' = <<>>
  /\ i' = 0
  /\ pc' = "while"
  /\ log' = <<>>
  /\ src' = <<>>
  /\ i0' = 0
  /\ out0' = 0
  /\ rd' = {}
  /\ UNCHANGED <<content, line, tryVars, catchVars, run>>

\* Line 15: the loop condition fails.
LoopExit ==
  /\ pc = "while" /\ Alive
  /\ ~(i < NumLines)
  /\ pc' = "write"
  /\ rd' = {}
  /\ UNCHANGED <<content, lines, cleaned_lines, i, line, tryVars, catchVars, run,
                 log, src, i0, out0>>

\* Lines 16-19, 96-98: a line that starts no try block is copied.
PlainLine ==
  /\ pc = "while" /\ Alive
  /\ i < NumLines
  /\ ~IsTryLine(LineAt(i))
  /\ line' = LineAt(i)
  /\ cleaned_lines' = Append(cleaned_lines, LineAt(i))
  /\ i' = i + 1
  /\ i0' = i
  /\ out0' = Len(cleaned_lines)
  /\ log' = Append(log, [br |-> "plain", ts |-> i, j |-> -1, cs |-> -1, ce |-> -1])
  /\ src' = Append(src, i)
  /\ rd' = {i}
  /\ UNCHANGED <<content, lines, tryVars, catchVars, pc, run>>

\* Lines 16-26: a try line starts the scan for the end of its block.
StartTry ==
  /\ pc = "while" /\ Alive
  /\ i < NumLines
  /\ IsTryLine(LineAt(i))
  /\ line' = LineAt(i)
  /\ try_start' = i
  /\ brace_count' = 0
  /\ j' = i
  /\ pc' = "forj"
  /\ i0' = i
  /\ out0' = Len(cleaned_lines)
  /\ rd' = {i}
  /\ UNCHANGED <<content, lines, cleaned_lines, i, catchVars, run, log, src>>

\* Lines 27-28: the brace count after lines[j].
CountAtJ == brace_count + BraceDelta(LineAt(j))

\* Line 30: the test for the end of the try block.
TryBlockEnds == CountAtJ = 0 /\ Contains(LineAt(j), "{")

\* Line 32: the next line exists and contains 'catch'.
NextHasCatch == j + 1 < NumLines /\ Contains(LineAt(j + 1), "catch")

\* The indexes lines 27-34 read.
ReadAtJ == {j} \cup (IF TryBlockEnds /\ j + 1 < NumLines THEN {j + 1} ELSE {})

\* AppendTryLine without the append: the try line is lost.
AppendTryLineDropped(br) ==
  /\ cleaned_lines' = cleaned_lines
  /\ i' = i + 1
  /\ pc' = "while"
  /\ log' = Append(log, Event(br))
  /\ src' = src

\* AppendTryLine without the increment: the main loop stays on the try line.
AppendTryLineStuck(br) ==
  /\ cleaned_lines' = Append(cleaned_lines, line)
  /\ i' = i
  /\ pc' = "while"
  /\ log' = Append(log, Event(br))
  /\ src' = Append(src, try_start)

\* cleaned_lines.append(line); i += 1; break  (lines 78-80, 83-85, 88-90, 93-95)
AppendTryLine(br) ==
  /\ cleaned_lines' = Append(cleaned_lines, line)
  /\ i' = i + 1
  /\ pc' = "while"
  /\ log' = Append(log, Event(br))
  /\ src' = Append(src, try_start)

\* Lines 27-40: the try block ended and a catch header follows; start the catch scan.
EnterCatch ==
  /\ pc = "forj" /\ Alive
  /\ TryBlockEnds
  /\ NextHasCatch
  /\ IsCatchHeader(LineAt(j + 1))
  /\ brace_count' = CountAtJ
  /\ catch_start' = j + 1
  /\ catch_brace_count' = 0
  /\ catch_content' = <<>>
  /\ k' = j + 1
  /\ pc' = "fork"
  /\ rd' = ReadAtJ
  /\ UNCHANGED <<content, lines, cleaned_lines, i, line, try_start, j, catch_end, run,
                 log, src, i0, out0>>

\* Lines 27-34, 81-85: the next line contains 'catch' but is no catch header.
NoCatchHeader ==
  /\ pc = "forj" /\ Alive
  /\ TryBlockEnds
  /\ NextHasCatch
  /\ ~IsCatchHeader(LineAt(j + 1))
  /\ brace_count' = CountAtJ
  /\ AppendTryLine("nohdr")
  /\ rd' = ReadAtJ
  /\ UNCHANGED <<content, lines, line, try_start, j, catchVars, run, i0, out0>>

\* Lines 27-32, 86-90: no next line, or one without 'catch'.
NoCatchLine ==
  /\ pc = "forj" /\ Alive
  /\ TryBlockEnds
  /\ ~NextHasCatch
  /\ brace_count' = CountAtJ
  /\ AppendTryLine("nocatch")
  /\ rd' = ReadAtJ
  /\ UNCHANGED <<content, lines, line, try_start, j, catchVars, run, i0, out0>>

\* Lines 27-30, 91-95: the last line is reached and the block has not ended.
EndOfFile ==
  /\ pc = "forj" /\ Alive
  /\ ~TryBlockEnds
  /\ j = NumLines - 1
  /\ brace_count' = CountAtJ
  /\ AppendTryLine("eof")
  /\ rd' = ReadAtJ
  /\ UNCHANGED <<content, lines, line, try_start, j, catchVars, run, i0, out0>>

\* Lines 26-30, 91: neither test holds; the try scan goes to the next line.
NextJ ==
  /\ pc = "forj" /\ Alive
  /\ ~TryBlockEnds
  /\ j # NumLines - 1
  /\ brace_count' = CountAtJ
  /\ j' = j + 1
  /\ rd' = ReadAtJ
  /\ UNCHANGED <<content, lines, cleaned_lines, i, line, try_start, catchVars, pc, run,
                 log, src, i0, out0>>

\* Lines 42-44: the catch brace count and content after lines[k].
CountAtK == catch_brace_count + BraceDelta(LineAt(k))
ContentAtK == Append(catch_content, LineAt(k))

\* Line 46: the test for the end of the catch block.
CatchBlockEnds == CountAtK = 0 /\ Contains(LineAt(k), "}")

\* Lines 55-64: the lines ts..jj without 'try {' on the first and without the
\* closing '}' on the last.
TryBody(ts, jj) ==
  [n \in 1..(jj - ts + 1) |->
     LET l == ts + n - 1
         first == IF l = ts THEN StripTryToken(LineAt(l)) ELSE LineAt(l)
     IN IF l = jj THEN StripCloseBrace(first) ELSE first]

TryContent == TryBody(try_start, j)

\* Where the program goes after the break of lines 69 and 75: the break leaves
\* the catch scan only, so the try scan takes its next line (j + 1 exists, it is
\* the catch header).
AfterPair ==
  /\ pc' = "forj"
  /\ j' = j + 1

\* Lines 42-69: the catch block ended and holds only comments; the try block's
\* lines are emitted without the wrapper.
StripPair ==
  /\ pc = "fork" /\ Alive
  /\ CatchBlockEnds
  /\ OnlyComments(ContentAtK)
  /\ catch_brace_count' = CountAtK
  /\ catch_content' = ContentAtK
  /\ catch_end' = k
  /\ cleaned_lines' = cleaned_lines \o TryContent
  /\ i' = k + 1
  /\ AfterPair
  /\ log' = Append(log, PairEvent("strip"))
  /\ src' = src \o Range(try_start, j)
  /\ rd' = {k} \cup (try_start..j)
  /\ UNCHANGED <<content, lines, line, try_start, brace_count, catch_start, k, run,
                 i0, out0>>

\* Lines 42-52, 70-75: the catch block ended and holds something else; the
\* lines from the try line to the end of the catch block are emitted.
KeepPair ==
  /\ pc = "fork" /\ Alive
  /\ CatchBlockEnds
  /\ ~OnlyComments(ContentAtK)
  /\ catch_brace_count' = CountAtK
  /\ catch_content' = ContentAtK
  /\ catch_end' = k
  /\ cleaned_lines' = cleaned_lines \o Slice(try_start, k)
  /\ i' = k + 1
  /\ AfterPair
  /\ log' = Append(log, PairEvent("keep"))
  /\ src' = src \o Range(try_start, k)
  /\ rd' = {k} \cup (try_start..k)
  /\ UNCHANGED <<content, lines, line, try_start, brace_count, catch_start, k, run,
                 i0, out0>>

\* Lines 41-46, 76-80: the catch scan ran to the last line without ending.
CatchUnclosed ==
  /\ pc = "fork" /\ Alive
  /\ ~CatchBlockEnds
  /\ k = NumLines - 1
  /\ catch_brace_count' = CountAtK
  /\ catch_content' = ContentAtK
  /\ AppendTryLine("unclosed")
  /\ rd' = {k}
  /\ UNCHANGED <<content, lines, line, tryVars, catch_start, k, catch_end, run, i0, out0>>

\* Lines 41-46: the catch scan goes to the next line.
NextK ==
  /\ pc = "fork" /\ Alive
  /\ ~CatchBlockEnds
  /\ k # NumLines - 1
  /\ catch_brace_count' = CountAtK
  /\ catch_content' = ContentAtK
  /\ k' = k + 1
  /\ rd' = {k}
  /\ UNCHANGED <<content, lines, cleaned_lines, i, line, tryVars, catch_start, catch_end,
                 pc, run, log, src, i0, out0>>

\* Lines 100-104: write the joined output lines back and report.
WriteBack ==
  /\ pc = "write"
  /\ content' = Join(cleaned_lines)
  /\ pc' = "done"
  /\ rd' = {}
  /\ UNCHANGED <<lines, cleaned_lines, i, line, tryVars, catchVars, run, log, src, i0, out0>>

\* The script is run again on the file it wrote.
Rerun ==
  /\ pc = "done"
  /\ run < MaxRuns
  /\ run' = run + 1
  /\ pc' = "read"
  /\ rd' = {}
  /\ UNCHANGED <<content, lines, cleaned_lines, i, line, tryVars, catchVars, log, src,
                 i0, out0>>

Next ==
  \/ ReadFile
  \/ LoopExit
  \/ PlainLine
  \/ StartTry
  \/ EnterCatch
  \/ NoCatchHeader
  \/ NoCatchLine
  \/ EndOfFile
  \/ NextJ
  \/ StripPair
  \/ KeepPair
  \/ CatchUnclosed
  \/ NextK
  \/ WriteBack

NextRerun == Next \/ Rerun

\* One run of the script.
Spec == Init /\ [][Next]_vars

\* The script run MaxRuns times in succession.
SpecRerun == Init /\ [][NextRerun]_vars

\* ---------------------------------------------------------------- properties
Indexes == 0..(NumLines - 1)
Pairs == {n \in DOMAIN log : log[n].br \in {"strip", "keep"}}
Scans == {n \in DOMAIN log : log[n].br # "plain"}
Taken(br) == \E n \in DOMAIN log : log[n].br = br
PairFound == Pairs # {}
\* the pairs found by the latest iteration of the main loop
LatestPairs == {n \in Pairs : log[n].ts = i0}
\* the output of the latest iteration of the main loop
LatestOutput == SubSeq(cleaned_lines, out0 + 1, Len(cleaned_lines))

\* a line that is empty or starts with // once trimmed
BlankOrComment(s) == Strip(s) = <<>> \/ Strip(s)[1] = "//"

\* the brace count of lines a..b, a..b within the input
RECURSIVE Depth(_, _)
Depth(a, b) == IF b < a THEN 0 ELSE Depth(a, b - 1) + BraceDelta(LineAt(b))

\* The try line t opens a block whose closing brace is the leading '}' of the
\* catch header c, and e holds the brace that closes the block the header opens.
TryCatchAt(t, c, e) ==
  /\ t < c /\ c < e
  /\ IsTryLine(LineAt(t))
  /\ IsCatchHeader(LineAt(c))
  /\ \A m \in t..(c - 1) : Depth(t, m) >= 1
  /\ Depth(t, c - 1) = 1
  /\ \A m \in c..(e - 1) : Depth(t, m) >= 1
  /\ Depth(t, e) = 0

\* C1: when a try line opens a block followed by a catch header whose body, up to
\* the catch's closing brace, is only comments and blank lines, the output holds
\* the try body lines and nothing of the wrapper: no output line is made from
\* the header, the catch body or the closing line, and the try line has lost
\* its 'try {'.
C1_CommentOnlyPairIsUnwrapped ==
  pc = "done" =>
    \A t \in Indexes, c \in Indexes, e \in Indexes :
      (TryCatchAt(t, c, e) /\ \A m \in (c + 1)..(e - 1) : BlankOrComment(LineAt(m)))
      => /\ \A n \in DOMAIN src : src[n] \notin c..e
         /\ \A n \in DOMAIN src : src[n] = t => ~IsTryLine(cleaned_lines[n])
         /\ \A m \in (t + 1)..(c - 1) :
              \E n \in DOMAIN src : src[n] = m /\ cleaned_lines[n] = LineAt(m)

\* C2: when the scan finds a try/catch pair whose catch body holds a line that is
\* neither blank nor a comment, the iteration emits the lines from the try line
\* to the catch's closing line once, unchanged, and nothing else, and the
\* main loop goes on at the line after the closing line.
C2_KeptPairIsCopiedOnce ==
  pc = "while" =>
    \A n \in LatestPairs :
      log[n].br = "keep"
      => /\ LatestOutput = Slice(log[n].ts, log[n].ce)
         /\ i = log[n].ce + 1

\* The last line of the construct the scan of try line ts made out: the end of
\* the catch block when it found a pair, else the end of the try block, else
\* (the braces never balanced) the end of the input.
Extent(ts) ==
  LET own == {n \in Scans : log[n].ts = ts}
      ownPairs == {n \in own : n \in Pairs}
  IN IF ownPairs # {}
     THEN log[CHOOSE n \in ownPairs : \A m \in ownPairs : log[m].ce <= log[n].ce].ce
     ELSE IF \E n \in own : log[n].br \in {"nohdr", "nocatch"}
     THEN log[CHOOSE n \in own : log[n].br \in {"nohdr", "nocatch"}].j
     ELSE NumLines - 1

Outside(p) == \A n \in Scans : p \notin log[n].ts..Extent(log[n].ts)

\* C3: every input line outside the try constructs the scan made out is in the
\* output exactly once, unchanged, and these lines keep their order.
C3_OutsideLinesAreCopied ==
  pc = "done" =>
    /\ \A p \in Indexes :
         Outside(p)
         => /\ Cardinality({n \in DOMAIN src : src[n] = p}) = 1
            /\ \A n \in DOMAIN src : src[n] = p => cleaned_lines[n] = LineAt(p)
    /\ \A n \in DOMAIN src, m \in DOMAIN src :
         (n < m /\ Outside(src[n]) /\ Outside(src[m])) => src[n] < src[m]

\* C4: the second run of the script leaves the file as the first run wrote it.
C4_Idempotent ==
  (pc = "done" /\ run = 2) => (cleaned_lines = lines /\ content = Join(lines))

C6_StripSkipsPastCatch ==
  pc = "while" =>
    \A n \in LatestPairs :
      log[n].br = "strip"
      => /\ LatestOutput = TryBody(log[n].ts, log[n].j)
         /\ i = log[n].ce + 1

\* the first line at or after ts where the brace count from ts is zero and
\* that holds a closing brace
ClosesAt(ts, m) == Depth(ts, m) = 0 /\ Contains(LineAt(m), "}")
HasClose(ts) == \E m \in ts..(NumLines - 1) : ClosesAt(ts, m)
FirstClose(ts) ==
  CHOOSE m \in ts..(NumLines - 1) :
    ClosesAt(ts, m) /\ \A l \in ts..(m - 1) : ~ClosesAt(ts, l)

\* C7: the line the scan takes as the end of a try block is the first line at
\* or after the try line with a zero brace count and a closing brace, and the
\* scan runs to the end of the input only when there is no such line.
C7_TryEndIsFirstBalancedClose ==
  /\ pc = "fork" => (HasClose(try_start) /\ j = FirstClose(try_start))
  /\ \A n \in Scans :
       log[n].br # "eof" => (HasClose(log[n].ts) /\ log[n].j = FirstClose(log[n].ts))
  /\ \A n \in Scans :
       (log[n].br = "eof" /\ log[n].ts \notin {log[m].ts : m \in Pairs})
       => ~HasClose(log[n].ts)

\* the line that closes the block the catch header c opens (the header's
\* leading '}' closes the try block and is not counted), if there is one
CatchDepth(c, m) == Depth(c, m) + 1
CatchCloses(c, m) ==
  /\ m > c
  /\ CatchDepth(c, m) <= 0
  /\ \A l \in c..(m - 1) : CatchDepth(c, l) >= 1

\* C8: a wrapper is stripped only if every line strictly between the catch
\* header and the line with the catch block's closing brace is blank or a
\* comment.
C8_StripOnlyCommentBody ==
  \A n \in Pairs :
    log[n].br = "strip"
    => \A e \in Indexes :
         CatchCloses(log[n].cs, e)
         => \A m \in (log[n].cs + 1)..(e - 1) : BlankOrComment(LineAt(m))

\* the scans that found the end of a try block and no catch header after it
Unpaired == {n \in Scans : log[n].br \in {"nohdr", "nocatch"} /\ log[n].ts \notin {log[m].ts : m \in Pairs}}

\* C9: when a try block ends and no catch header follows, the lines of the try
\* block are in the output unchanged and in a row, and no try line inside the
\* block starts a scan of its own.
C9_UnpairedTryIsSkippedWhole ==
  \A n \in Unpaired :
    /\ pc \in {"forj", "fork"} => try_start \notin (log[n].ts + 1)..(log[n].j - 1)
    /\ pc = "done"
       => \E q \in DOMAIN src :
            /\ q + (log[n].j - log[n].ts) <= Len(src)
            /\ \A d \in 0..(log[n].j - log[n].ts) :
                 /\ src[q + d] = log[n].ts + d
                 /\ cleaned_lines[q + d] = LineAt(log[n].ts + d)

\* How far a state is from the end of the run, as a tuple of naturals ordered
\* lexicographically: the stage, the lines left to the main loop at the top of
\* the iteration, the position in the iteration, the lines left to the try
\* scan, the position in it, the lines left to the catch scan.
Rank ==
  CASE pc = "read" -> <<3, 0, 0, 0, 0, 0>>
    [] pc = "while" -> <<2, NumLines + 1 - i, 1, 0, 0, 0>>
    [] pc = "forj" -> <<2, NumLines + 1 - try_start, 0, NumLines - j, 1, 0>>
    [] pc = "fork" -> <<2, NumLines + 1 - try_start, 0, NumLines - j, 0, NumLines - k>>
    [] pc = "write" -> <<1, 0, 0, 0, 0, 0>>
    [] OTHER -> <<0, 0, 0, 0, 0, 0>>

LexLess(x, y) ==
  \E p \in DOMAIN x : x[p] < y[p] /\ \A q \in 1..(p - 1) : x[q] = y[q]

\* The state has a next step: the file is to be read or written, the main loop
\* is at its test, or a scan is at a line of the input (the branches of lines
\* 30-95 and 46-80 are exhaustive there).
CanStep ==
  \/ pc \in {"read", "write"}
  \/ pc = "while" /\ Alive
  \/ pc = "forj" /\ Alive /\ j \in Indexes
  \/ pc = "fork" /\ Alive /\ k \in Indexes /\ j \in Indexes

\* C10: the main scan terminates.  Every step of a run lowers Rank, whose
\* entries are naturals, and every state but the last has a next step, so a
\* run takes finitely many steps and ends written back; an iteration of the
\* main loop leaves i above the index it started at; no line index outside
\* 0..len(lines)-1 is read; the loop ends with i >= len(lines).
C10_ScanTerminates ==
  /\ [][LexLess(Rank', Rank)]_vars
  /\ [](\A p \in DOMAIN Rank : Rank[p] \in Nat)
  /\ [](pc = "done" \/ CanStep)
  /\ []((pc = "while" /\ log # <<>>) => i > i0)
  /\ []Alive
  /\ [](pc = "write" => i >= NumLines)

\* C10 witness: a finished run that found a pair and left the loop with i
\* beyond the last line.
C10_Witness == pc = "done" /\ PairFound /\ i > NumLines

====
